---- MODULE Spec2Model ----
(***************************************************************************)
(* A model of the LifeGraph vault of redog/WackyTheorem:                   *)
(*   lifegraph.rs  the Item model and the Connector contract,              *)
(*   storage.rs    DuckDbStorage: init, save_item, save_items,             *)
(*                 get_all_items over the items table of one database file,*)
(*   lib.rs        run(): the start-up orchestration.                      *)
(*                                                                         *)
(* Text columns are modelled as text: a timestamp column holds the         *)
(* characters to_rfc3339() writes, a JSON column holds the tokens          *)
(* serde_json writes, and reading parses them back.                        *)
(***************************************************************************)
EXTENDS Integers, Sequences, FiniteSets, TLC

(***************************************************************************)
(* Bounds of the model.                                                    *)
(***************************************************************************)
\* the longest batch a caller passes to save_items
MaxBatch == 2
\* the number of process starts (calls of run()) explored
MaxRuns == 3

(***************************************************************************)
(* chrono: DateTime<Utc> and its RFC 3339 text.                            *)
(***************************************************************************)
Digits == <<"0", "1", "2", "3", "4", "5", "6", "7", "8", "9">>

DigitChar(d) == Digits[d + 1]

IsDigit(c) == \E d \in 0..9 : Digits[d + 1] = c

DigitVal(c) == CHOOSE d \in 0..9 : Digits[d + 1] = c

\* format!("{:0w$}", n): n in exactly w decimal digits
RECURSIVE Pad(_, _)
Pad(n, w) == IF w = 0 THEN << >> ELSE Pad(n \div 10, w - 1) \o <<DigitChar(n % 10)>>

\* a DateTime<Utc> value: the civil date and time chrono keeps, in UTC
DateTime(y, mo, d, h, mi, s, ns) ==
  [year |-> y, month |-> mo, day |-> d, hour |-> h, minute |-> mi, second |-> s, nano |-> ns]

\* the derived Ord of DateTime: date, then time of day, then nanoseconds
DateTimeKey(dt) == <<dt.year, dt.month, dt.day, dt.hour, dt.minute, dt.second, dt.nano>>

RECURSIVE TupleLess(_, _)
TupleLess(a, b) ==
  IF a = << >> \/ b = << >> THEN FALSE
  ELSE IF Head(a) # Head(b) THEN Head(a) < Head(b)
  ELSE TupleLess(Tail(a), Tail(b))

DateTimeLess(a, b) == TupleLess(DateTimeKey(a), DateTimeKey(b))

\* SecondsFormat::AutoSi: no fraction, or 3, 6 or 9 digits, the shortest that is exact
AutoSiFraction(ns) ==
  IF ns = 0 THEN << >>
  ELSE IF ns % 1000000 = 0 THEN <<".">> \o Pad(ns \div 1000000, 3)
  ELSE IF ns % 1000 = 0 THEN <<".">> \o Pad(ns \div 1000, 6)
  ELSE <<".">> \o Pad(ns, 9)

\* DateTime<Utc>::to_rfc3339(), as save_items calls it on timestamp and ingested_at
to_rfc3339(dt) ==
  Pad(dt.year, 4) \o <<"-">> \o Pad(dt.month, 2) \o <<"-">> \o Pad(dt.day, 2)
    \o <<"T">> \o Pad(dt.hour, 2) \o <<":">> \o Pad(dt.minute, 2) \o <<":">> \o Pad(dt.second, 2)
    \o AutoSiFraction(dt.nano)
    \o <<"+", "0", "0", ":", "0", "0">>

\* the value of the digits of s at positions i..j
RECURSIVE DigitsVal(_, _, _)
DigitsVal(s, i, j) == IF j < i THEN 0 ELSE DigitsVal(s, i, j - 1) * 10 + DigitVal(s[j])

AllDigits(s, i, j) == \A k \in i..j : IsDigit(s[k])

\* the number of digits of s from position i on
RECURSIVE DigitRun(_, _)
DigitRun(s, i) == IF i > Len(s) \/ ~IsDigit(s[i]) THEN 0 ELSE 1 + DigitRun(s, i + 1)

\* the first nine digits of a fraction, as nanoseconds
RECURSIVE FractionNanos(_, _, _)
FractionNanos(s, i, n) ==
  IF n = 0 THEN 0
  ELSE (IF i <= Len(s) /\ IsDigit(s[i]) THEN DigitVal(s[i]) ELSE 0) * (10 ^ (n - 1))
         + FractionNanos(s, i + 1, n - 1)

NoDateTime == DateTime(0, 0, 0, 0, 0, 0, 0)

\* the UTC designators: Z, z, +00:00, -00:00
IsUtcOffset(s) ==
  \/ s = <<"Z">>
  \/ s = <<"z">>
  \/ s = <<"+", "0", "0", ":", "0", "0">>
  \/ s = <<"-", "0", "0", ":", "0", "0">>

\* DateTime::parse_from_rfc3339(text).map(|dt| dt.with_timezone(&Utc)) on texts
\* whose offset, when there is one, is a UTC designator
parse_from_rfc3339(s) ==
  IF /\ Len(s) >= 20
     /\ AllDigits(s, 1, 4) /\ s[5] = "-" /\ AllDigits(s, 6, 7) /\ s[8] = "-"
     /\ AllDigits(s, 9, 10) /\ s[11] \in {"T", "t", " "}
     /\ AllDigits(s, 12, 13) /\ s[14] = ":" /\ AllDigits(s, 15, 16) /\ s[17] = ":"
     /\ AllDigits(s, 18, 19)
  THEN LET fracLen == IF s[20] = "." THEN DigitRun(s, 21) ELSE 0
           offAt == IF s[20] = "." THEN 21 + fracLen ELSE 20
           dt == DateTime(DigitsVal(s, 1, 4), DigitsVal(s, 6, 7), DigitsVal(s, 9, 10),
                          DigitsVal(s, 12, 13), DigitsVal(s, 15, 16), DigitsVal(s, 18, 19),
                          IF s[20] = "." THEN FractionNanos(s, 21, 9) ELSE 0)
       IN IF /\ (s[20] = "." => fracLen >= 1)
             /\ offAt <= Len(s)
             /\ IsUtcOffset(SubSeq(s, offAt, Len(s)))
             /\ dt.month \in 1..12 /\ dt.day \in 1..31
             /\ dt.hour \in 0..23 /\ dt.minute \in 0..59 /\ dt.second \in 0..59
          THEN [ok |-> TRUE, dt |-> dt]
          ELSE [ok |-> FALSE, dt |-> NoDateTime]
  ELSE [ok |-> FALSE, dt |-> NoDateTime]

(***************************************************************************)
(* The byte order of text, as ORDER BY compares a TEXT column.             *)
(***************************************************************************)
\* the code point of the characters a timestamp text is made of
CharCode(c) ==
  CASE c = " " -> 32
    [] c = "+" -> 43
    [] c = "-" -> 45
    [] c = "." -> 46
    [] IsDigit(c) -> 48 + DigitVal(c)
    [] c = ":" -> 58
    [] c = "T" -> 84
    [] c = "Z" -> 90
    [] c = "t" -> 116
    [] c = "z" -> 122
    [] OTHER -> 63

RECURSIVE TextLess(_, _)
TextLess(a, b) ==
  IF b = << >> THEN FALSE
  ELSE IF a = << >> THEN TRUE
  ELSE IF CharCode(Head(a)) # CharCode(Head(b)) THEN CharCode(Head(a)) < CharCode(Head(b))
  ELSE TextLess(Tail(a), Tail(b))

(***************************************************************************)
(* serde_json text, as a sequence of tokens: a string literal (q = TRUE)   *)
(* or a bare token (punctuation, null, true, false, a number).             *)
(***************************************************************************)
StrTok(s) == [q |-> TRUE, s |-> s]

Bare(s) == [q |-> FALSE, s |-> s]

\* lifegraph.rs, enum ItemKind: seven unit variants and Other(String)
UnitVariants == {"Person", "Organization", "Transaction", "Message", "File", "Metric", "Event"}

Unit(v) == [tag |-> v, arg |-> ""]

Other(s) == [tag |-> "Other", arg |-> s]

\* #[serde(rename_all = "snake_case")]
SnakeCase(v) ==
  CASE v = "Person" -> "person"
    [] v = "Organization" -> "organization"
    [] v = "Transaction" -> "transaction"
    [] v = "Message" -> "message"
    [] v = "File" -> "file"
    [] v = "Metric" -> "metric"
    [] v = "Event" -> "event"
    [] v = "Other" -> "other"

\* a derive that writes Other(tag) as the bare tag, like a unit variant
KindToJsonUntagged(kind) ==
  IF kind.tag = "Other" THEN <<StrTok(kind.arg)>> ELSE <<StrTok(SnakeCase(kind.tag))>>

\* serde_json::to_string(&item.kind): a unit variant is its name as a string,
\* Other(tag) is the externally tagged {"other": tag}
KindToJson(kind) ==
  IF kind.tag = "Other"
  THEN <<Bare("{"), StrTok("other"), Bare(":"), StrTok(kind.arg), Bare("}")>>
  ELSE <<StrTok(SnakeCase(kind.tag))>>

\* serde_json::from_str::<ItemKind>(&kind_str)
KindFromJson(text) ==
  IF Len(text) = 1 /\ text[1].q /\ \E v \in UnitVariants : SnakeCase(v) = text[1].s
  THEN [ok |-> TRUE, kind |-> Unit(CHOOSE v \in UnitVariants : SnakeCase(v) = text[1].s)]
  ELSE IF /\ Len(text) = 5
          /\ text[1] = Bare("{") /\ text[2] = StrTok("other") /\ text[3] = Bare(":")
          /\ text[4].q /\ text[5] = Bare("}")
  THEN [ok |-> TRUE, kind |-> Other(text[4].s)]
  ELSE IF /\ Len(text) = 5
          /\ text[1] = Bare("{") /\ text[2].q /\ text[3] = Bare(":")
          /\ text[4] = Bare("null") /\ text[5] = Bare("}")
          /\ \E v \in UnitVariants : SnakeCase(v) = text[2].s
  THEN [ok |-> TRUE, kind |-> Unit(CHOOSE v \in UnitVariants : SnakeCase(v) = text[2].s)]
  ELSE [ok |-> FALSE, kind |-> Other("")]

\* serde_json::Value: null, a boolean, a number, a string, or an object whose
\* members are kept in key order (an array is not modelled)
JNull == [t |-> "null", s |-> "", m |-> << >>]

JBool(b) == [t |-> "bool", s |-> IF b THEN "true" ELSE "false", m |-> << >>]

JNum(n) == [t |-> "num", s |-> DigitChar(n), m |-> << >>]

JStr(s) == [t |-> "str", s |-> s, m |-> << >>]

JObj(members) == [t |-> "obj", s |-> "", m |-> members]

Member(k, v) == [k |-> k, v |-> v]

\* the keys the model's objects use, in the order of the map (a BTreeMap)
JsonKeys == <<"body", "name", "subject">>

KeyRank(k) == IF \E i \in 1..Len(JsonKeys) : JsonKeys[i] = k
              THEN CHOOSE i \in 1..Len(JsonKeys) : JsonKeys[i] = k
              ELSE Len(JsonKeys) + 1

\* Map::insert: replaces the member of that key, or places it in key order
RECURSIVE MapInsert(_, _)
MapInsert(m, e) ==
  IF m = << >> THEN <<e>>
  ELSE IF Head(m).k = e.k THEN <<e>> \o Tail(m)
  ELSE IF KeyRank(e.k) < KeyRank(Head(m).k) THEN <<e>> \o m
  ELSE <<Head(m)>> \o MapInsert(Tail(m), e)

\* Value::to_string()
RECURSIVE ValueToText(_)
RECURSIVE MembersToText(_)
MembersToText(m) ==
  IF m = << >> THEN << >>
  ELSE <<StrTok(Head(m).k), Bare(":")>> \o ValueToText(Head(m).v)
         \o (IF Tail(m) = << >> THEN << >> ELSE <<Bare(",")>> \o MembersToText(Tail(m)))

ValueToText(v) ==
  CASE v.t = "null" -> <<Bare("null")>>
    [] v.t = "bool" -> <<Bare(v.s)>>
    [] v.t = "num" -> <<Bare(v.s)>>
    [] v.t = "str" -> <<StrTok(v.s)>>
    [] v.t = "obj" -> <<Bare("{")>> \o MembersToText(v.m) \o <<Bare("}")>>

ParseFail == [ok |-> FALSE, v |-> JNull, rest |-> << >>]

\* the parser behind serde_json::from_str::<Value>: one value off the front of toks
RECURSIVE ParseValue(_)
RECURSIVE ParseMembers(_, _)
ParseMembers(toks, acc) ==
  IF Len(toks) < 2 \/ ~toks[1].q \/ toks[2] # Bare(":") THEN ParseFail
  ELSE LET r == ParseValue(SubSeq(toks, 3, Len(toks)))
           m == MapInsert(acc, Member(toks[1].s, r.v))
       IN IF ~r.ok \/ r.rest = << >> THEN ParseFail
          ELSE IF Head(r.rest) = Bare("}") THEN [ok |-> TRUE, v |-> JObj(m), rest |-> Tail(r.rest)]
          ELSE IF Head(r.rest) = Bare(",") THEN ParseMembers(Tail(r.rest), m)
          ELSE ParseFail

ParseValue(toks) ==
  IF toks = << >> THEN ParseFail
  ELSE LET h == Head(toks)
           rest == Tail(toks)
       IN IF h.q THEN [ok |-> TRUE, v |-> JStr(h.s), rest |-> rest]
          ELSE IF h.s = "null" THEN [ok |-> TRUE, v |-> JNull, rest |-> rest]
          ELSE IF h.s \in {"true", "false"} THEN [ok |-> TRUE, v |-> JBool(h.s = "true"), rest |-> rest]
          ELSE IF IsDigit(h.s) THEN [ok |-> TRUE, v |-> JNum(DigitVal(h.s)), rest |-> rest]
          ELSE IF h.s = "{"
          THEN IF rest # << >> /\ Head(rest) = Bare("}")
               THEN [ok |-> TRUE, v |-> JObj(<< >>), rest |-> Tail(rest)]
               ELSE ParseMembers(rest, << >>)
          ELSE ParseFail

\* serde_json::from_str::<Value>(text): one value and nothing after it
ValueFromText(text) ==
  LET r == ParseValue(text)
  IN IF r.ok /\ r.rest = << >> THEN [ok |-> TRUE, v |-> r.v] ELSE [ok |-> FALSE, v |-> JNull]

(***************************************************************************)
(* lifegraph.rs: Item.  storage.rs: a row of the items table.              *)
(***************************************************************************)
None == [some |-> FALSE, v |-> JNull]

Some(v) == [some |-> TRUE, v |-> v]

\* struct Item
Item(id, source_id, connector_id, kind, timestamp, ingested_at, properties, raw_payload) ==
  [id |-> id, source_id |-> source_id, connector_id |-> connector_id, kind |-> kind,
   timestamp |-> timestamp, ingested_at |-> ingested_at,
   properties |-> properties, raw_payload |-> raw_payload]

\* a cell of a TEXT column: NULL, or its text
Cell(text) == [null |-> FALSE, text |-> text]

NullText == [null |-> TRUE, text |-> << >>]

\* the eight values save_items binds to the INSERT for one item
RowOf(item) ==
  [id |-> item.id,
   source_id |-> Cell(item.source_id),
   connector_id |-> Cell(item.connector_id),
   kind |-> Cell(KindToJson(item.kind)),
   timestamp |-> Cell(to_rfc3339(item.timestamp)),
   ingested_at |-> Cell(to_rfc3339(item.ingested_at)),
   properties |-> Cell(ValueToText(item.properties)),
   raw_payload |-> IF item.raw_payload.some
                   THEN Cell(ValueToText(item.raw_payload.v))
                   ELSE NullText]

NoItem == Item("", "", "", Other(""), NoDateTime, NoDateTime, JNull, None)

\* a closure that fails the row whose timestamp or ingested_at does not parse,
\* as `parse_from_rfc3339(..)?` would
ItemOfRowStrict(row, now) ==
  IF \/ row.source_id.null \/ row.connector_id.null \/ row.kind.null
     \/ row.timestamp.null \/ row.ingested_at.null \/ row.properties.null
     \/ ~parse_from_rfc3339(row.timestamp.text).ok
     \/ ~parse_from_rfc3339(row.ingested_at.text).ok
  THEN [ok |-> FALSE, item |-> NoItem]
  ELSE LET k == KindFromJson(row.kind.text)
           pr == ValueFromText(row.properties.text)
           rp == IF row.raw_payload.null
                 THEN [ok |-> FALSE, v |-> JNull]
                 ELSE ValueFromText(row.raw_payload.text)
       IN [ok |-> TRUE,
           item |-> Item(row.id, row.source_id.text, row.connector_id.text,
                         IF k.ok THEN k.kind ELSE Other("parse_error"),
                         parse_from_rfc3339(row.timestamp.text).dt,
                         parse_from_rfc3339(row.ingested_at.text).dt,
                         IF pr.ok THEN pr.v ELSE JNull,
                         IF rp.ok THEN Some(rp.v) ELSE None)]

\* the closure get_all_items maps over every row: a NULL in a column read as
\* String is an error of the row; text that does not parse is replaced
ItemOfRow(row, now) ==
  IF \/ row.source_id.null \/ row.connector_id.null \/ row.kind.null
     \/ row.timestamp.null \/ row.ingested_at.null \/ row.properties.null
  THEN [ok |-> FALSE, item |-> NoItem]
  ELSE LET k == KindFromJson(row.kind.text)
           ts == parse_from_rfc3339(row.timestamp.text)
           ia == parse_from_rfc3339(row.ingested_at.text)
           pr == ValueFromText(row.properties.text)
           rp == IF row.raw_payload.null
                 THEN [ok |-> FALSE, v |-> JNull]
                 ELSE ValueFromText(row.raw_payload.text)
       IN [ok |-> TRUE,
           item |-> Item(row.id, row.source_id.text, row.connector_id.text,
                         IF k.ok THEN k.kind ELSE Other("parse_error"),
                         IF ts.ok THEN ts.dt ELSE now,
                         IF ia.ok THEN ia.dt ELSE now,
                         IF pr.ok THEN pr.v ELSE JNull,
                         IF rp.ok THEN Some(rp.v) ELSE None)]

(***************************************************************************)
(* The items table: at most one row per id (id TEXT PRIMARY KEY), as a     *)
(* function from the ids stored to their rows.                             *)
(***************************************************************************)
EmptyTable == << >>

\* an upsert that keeps the stored ingested_at of a row it replaces
InsertKeepIngestedAt(table, row) ==
  [id \in DOMAIN table \cup {row.id} |->
     IF id # row.id THEN table[id]
     ELSE IF id \in DOMAIN table THEN [row EXCEPT !.ingested_at = table[id].ingested_at]
     ELSE row]

\* INSERT OR IGNORE: a row of an id already written stays, the new one is dropped
InsertOrIgnore(table, row) ==
  [id \in DOMAIN table \cup {row.id} |-> IF id \in DOMAIN table THEN table[id] ELSE row]

\* an INSERT into a table whose id column is no key: a row of an id already
\* stored is added beside it
InsertNoKey(table, row) ==
  [k \in DOMAIN table \cup {IF row.id \in DOMAIN table THEN row.id \o "'" ELSE row.id} |->
     IF k \in DOMAIN table THEN table[k] ELSE row]

\* INSERT OR REPLACE INTO items (...) VALUES (...): the row of that id, if any,
\* is replaced whole; otherwise the row is added
InsertOrReplace(table, row) ==
  [id \in DOMAIN table \cup {row.id} |-> IF id = row.id THEN row ELSE table[id]]

\* a commit into a table that keeps one row per (connector_id, source_id): the
\* committed rows of a pair that a written row carries give way to it
OverlayUniqueSource(table, writes) ==
  LET kept == {id \in DOMAIN table \ DOMAIN writes :
                 \A w \in DOMAIN writes :
                   \/ table[id].connector_id # writes[w].connector_id
                   \/ table[id].source_id # writes[w].source_id}
  IN [id \in kept \cup DOMAIN writes |->
        IF id \in DOMAIN writes THEN writes[id] ELSE table[id]]

\* the rows a transaction has written laid over the committed table
Overlay(table, writes) ==
  [id \in DOMAIN table \cup DOMAIN writes |->
     IF id \in DOMAIN writes THEN writes[id] ELSE table[id]]

\* the sequences that hold every element of S once
Orders(S) ==
  {s \in [1..Cardinality(S) -> S] : \A i, j \in 1..Cardinality(S) : s[i] = s[j] => i = j}

\* ORDER BY timestamp ASC
OrderByTimestampAsc(table) ==
  {s \in Orders(DOMAIN table) :
     \A i, j \in 1..Len(s) :
       i < j => ~TextLess(table[s[j]].timestamp.text, table[s[i]].timestamp.text)}

\* ORDER BY timestamp DESC over the TEXT column: every order of the rows in
\* which no row comes before one of greater text (rows of equal text in any order)
OrderByTimestampDesc(table) ==
  {s \in Orders(DOMAIN table) :
     \A i, j \in 1..Len(s) :
       i < j => ~TextLess(table[s[i]].timestamp.text, table[s[j]].timestamp.text)}

(***************************************************************************)
(* State.                                                                  *)
(*   tableExists, items   the database file: whether the items table has   *)
(*                        been created, and its committed rows             *)
(*   call                 per caller, the save_items call in progress: its *)
(*                        batch, how many items the loop has executed, and *)
(*                        the rows its open transaction has written        *)
(*   ret                  per caller, the value its last call returned     *)
(*   saved                history: per id, the Item of the last save that  *)
(*                        committed it                                     *)
(*   hostPc .. reported   run() of lib.rs (see below)                      *)
(* call and ret also carry history used to state properties: the table and *)
(* `saved` as they were when the call began (before, history), the         *)
(* arguments of the call, how far its loop got (done), why it failed (err),*)
(* and whether a read ran while another caller's transaction had written   *)
(* rows (racing).                                                          *)
(***************************************************************************)
VARIABLES tableExists, items, call, ret, saved,
          hostPc, runs, initOk, syncOk, synced, saveOk, reported

storageVars == <<tableExists, items, call, ret, saved>>

hostVars == <<hostPc, runs, initOk, syncOk, synced, saveOk, reported>>

vars == <<tableExists, items, call, ret, saved,
          hostPc, runs, initOk, syncOk, synced, saveOk, reported>>

\* the callers of the one DuckDbStorage: client tasks, and run()'s own calls
Callers == {"t1", "t2", "host"}

Idle == [op |-> "idle", batch |-> << >>, done |-> 0, writes |-> EmptyTable,
         before |-> EmptyTable, history |-> << >>]

NoResult == [op |-> "none", ok |-> FALSE, err |-> "", items |-> << >>, done |-> 0,
             before |-> EmptyTable, history |-> << >>, racing |-> FALSE]

\* Ok(()) of init
InitOk(c) == [NoResult EXCEPT !.op = "init", !.ok = TRUE, !.before = items, !.history = saved]

\* Err(e) of init: connect() or execute() failed
InitErr(c) == [NoResult EXCEPT !.op = "init", !.err = "engine", !.before = items,
                               !.history = saved]

\* Err(e) of save_items before its loop: connect(), transaction() or prepare() failed
SaveNotBegun(c, batch) ==
  [NoResult EXCEPT !.op = "save", !.err = "engine", !.items = batch, !.before = items,
                   !.history = saved]

\* Ok(()) or Err(e) of the save_items call in progress
SaveReturned(c, ok) ==
  [NoResult EXCEPT !.op = "save", !.ok = ok, !.err = IF ok THEN "" ELSE "engine",
                   !.items = call[c].batch, !.done = call[c].done,
                   !.before = call[c].before, !.history = call[c].history]

\* whether a caller other than c has a transaction that has written rows
OtherWriting(c) == \E w \in Callers \ {c} : call[w].op = "save" /\ call[w].done >= 1

\* Ok(items) of get_all_items
GetOk(c, list) ==
  [NoResult EXCEPT !.op = "get", !.ok = TRUE, !.items = list, !.before = items,
                   !.history = saved, !.racing = OtherWriting(c)]

\* Err(e) of get_all_items: "engine" when connect() or prepare() failed, "row"
\* when the closure failed on a row
GetErr(c, err) ==
  [NoResult EXCEPT !.op = "get", !.err = err, !.before = items, !.history = saved,
                   !.racing = OtherWriting(c)]

\* Utc::now() at a read, for the fallback of a timestamp that does not parse
ReadClock == {DateTime(2026, 11, 5, 8, 0, 0, 0), DateTime(2026, 11, 5, 8, 0, 1, 250000000)}

\* CREATE OR REPLACE TABLE items: the table is created anew
CreateOrReplaceTable(exists, table) == EmptyTable

\* CREATE TABLE IF NOT EXISTS items (...); CREATE INDEX IF NOT EXISTS ...:
\* the rows of the table after the statement
CreateTableIfNotExists(exists, table) == IF exists THEN table ELSE EmptyTable

\* DuckDbStorage::init; ok: whether connect() and execute() succeed
init(c, ok) ==
  /\ call[c].op = "idle" /\ ret[c].op = "none"
  /\ tableExists' = (tableExists \/ ok)
  /\ items' = IF ok THEN CreateTableIfNotExists(tableExists, items) ELSE items
  /\ ret' = [ret EXCEPT ![c] = IF ok THEN InitOk(c) ELSE InitErr(c)]
  /\ UNCHANGED <<call, saved>>

\* DuckDbStorage::save_items up to the loop: connect(), conn.transaction() and
\* tx.prepare(); ok: whether the engine lets them succeed (prepare cannot when
\* the table is missing)
save_items(c, batch, ok) ==
  /\ call[c].op = "idle" /\ ret[c].op = "none"
  /\ IF ok /\ tableExists
     THEN /\ call' = [call EXCEPT ![c] = [op |-> "save", batch |-> batch, done |-> 0,
                                         writes |-> EmptyTable,
                                         before |-> items, history |-> saved]]
          /\ UNCHANGED ret
     ELSE /\ ret' = [ret EXCEPT ![c] = SaveNotBegun(c, batch)]
          /\ UNCHANGED call
  /\ UNCHANGED <<tableExists, items, saved>>

\* a save_item that runs its one INSERT on the connection itself, without
\* going through save_items and its transaction
SaveItemDirect(c, item, ok) ==
  /\ call[c].op = "idle" /\ ret[c].op = "none"
  /\ IF ok /\ tableExists
     THEN /\ items' = InsertOrReplace(items, RowOf(item))
          /\ saved' = [id \in DOMAIN saved \cup {item.id} |->
                         IF id = item.id THEN item ELSE saved[id]]
          /\ ret' = [ret EXCEPT ![c] =
                       [NoResult EXCEPT !.op = "save", !.ok = TRUE, !.items = <<item>>,
                                        !.done = 1, !.before = items, !.history = saved]]
     ELSE /\ ret' = [ret EXCEPT ![c] = SaveNotBegun(c, <<item>>)]
          /\ UNCHANGED <<items, saved>>
  /\ UNCHANGED <<tableExists, call>>

\* DuckDbStorage::save_item
save_item(c, item, ok) == save_items(c, <<item>>, ok)

\* a statement that is committed as it is executed, outside any transaction
ExecuteAutocommit(c, row) ==
  /\ call' = [call EXCEPT ![c].done = @ + 1]
  /\ items' = InsertOrReplace(items, row)
  /\ UNCHANGED <<ret, saved>>

\* stmt.execute(params![...]) inside the transaction: the row is written in
\* the transaction, not in the committed table
Execute(c, row) ==
  /\ call' = [call EXCEPT ![c].done = @ + 1, ![c].writes = InsertOrReplace(@, row)]
  /\ UNCHANGED <<items, ret, saved>>

\* a transaction that commits what it wrote when it is dropped
DropCommits(c) ==
  /\ items' = Overlay(items, call[c].writes)
  /\ call' = [call EXCEPT ![c] = Idle]
  /\ ret' = [ret EXCEPT ![c] = SaveReturned(c, FALSE)]
  /\ UNCHANGED saved

\* a `?` leaves save_items with Err: tx is dropped uncommitted, which rolls back
ReturnErrDroppingTx(c) ==
  /\ call' = [call EXCEPT ![c] = Idle]
  /\ ret' = [ret EXCEPT ![c] = SaveReturned(c, FALSE)]
  /\ UNCHANGED <<items, saved>>

\* one turn of `for item in items`; ok: whether to_string and execute succeed
execute(c, ok) ==
  /\ call[c].op = "save" /\ call[c].done < Len(call[c].batch)
  /\ IF ok THEN Execute(c, RowOf(call[c].batch[call[c].done + 1]))
           ELSE ReturnErrDroppingTx(c)
  /\ UNCHANGED tableExists

\* the Item each id holds after the items of batch were saved one after the other
RECURSIVE SavedAfter(_, _)
SavedAfter(map, batch) ==
  IF batch = << >> THEN map
  ELSE SavedAfter([id \in DOMAIN map \cup {Head(batch).id} |->
                     IF id = Head(batch).id THEN Head(batch) ELSE map[id]], Tail(batch))

\* tx.commit(): the rows the transaction wrote become the committed rows, at once
Commit(c) ==
  /\ items' = Overlay(items, call[c].writes)
  /\ saved' = SavedAfter(saved, call[c].batch)
  /\ call' = [call EXCEPT ![c] = Idle]
  /\ ret' = [ret EXCEPT ![c] = SaveReturned(c, TRUE)]

\* the end of save_items, after the loop; ok: whether tx.commit() succeeds
commit(c, ok) ==
  /\ call[c].op = "save" /\ call[c].done = Len(call[c].batch)
  /\ IF ok THEN Commit(c) ELSE ReturnErrDroppingTx(c)
  /\ UNCHANGED tableExists

\* the closure of get_all_items over the rows in the order the SELECT gave them
ReadRows(table, order, now) == [i \in 1..Len(order) |-> ItemOfRow(table[order[i]], now)]

\* a read whose SELECT ends in LIMIT 1: the first row of the order alone
GetAllItemsFirstRow(c, ok, now) ==
  /\ call[c].op = "idle" /\ ret[c].op = "none"
  /\ IF ok /\ tableExists
     THEN \E order \in OrderByTimestampDesc(items) :
            LET first == SubSeq(order, 1, IF Len(order) = 0 THEN 0 ELSE 1)
                read == ReadRows(items, first, now)
            IN ret' = [ret EXCEPT ![c] =
                         IF \A i \in 1..Len(first) : read[i].ok
                         THEN GetOk(c, [i \in 1..Len(first) |-> read[i].item])
                         ELSE GetErr(c, "row")]
     ELSE ret' = [ret EXCEPT ![c] = GetErr(c, "engine")]
  /\ UNCHANGED <<tableExists, items, call, saved>>

\* DuckDbStorage::get_all_items; ok: whether connect() and prepare() succeed
\* (prepare cannot when the table is missing); now: Utc::now() at the read.
\* The SELECT runs on a connection of its own and sees the committed rows.
get_all_items(c, ok, now) ==
  /\ call[c].op = "idle" /\ ret[c].op = "none"
  /\ IF ok /\ tableExists
     THEN \E order \in OrderByTimestampDesc(items) :
            LET read == ReadRows(items, order, now)
            IN ret' = [ret EXCEPT ![c] =
                         IF \A i \in 1..Len(order) : read[i].ok
                         THEN GetOk(c, [i \in 1..Len(order) |-> read[i].item])
                         ELSE GetErr(c, "row")]
     ELSE ret' = [ret EXCEPT ![c] = GetErr(c, "engine")]
  /\ UNCHANGED <<tableExists, items, call, saved>>

\* the caller takes the value its call returned
Return(c) ==
  /\ ret[c].op # "none"
  /\ ret' = [ret EXCEPT ![c] = NoResult]
  /\ UNCHANGED <<tableExists, items, call, saved>>

(***************************************************************************)
(* The Items the callers of the storage pass in.                           *)
(***************************************************************************)
\* the item of tests::test_duckdb_storage
TestTime == DateTime(2020, 9, 13, 12, 26, 40, 0)

AliceProperties == JObj(<<Member("name", JStr("Alice"))>>)

\* the properties MockConnector::full_sync builds
MockProperties ==
  JObj(<<Member("body", JStr("This is a test message from the mock connector.")),
         Member("subject", JStr("Hello World"))>>)

\* the fields an Item can carry besides its id: the test's item, the mock
\* connector's, and two with an Other kind, a raw payload and finer timestamps
Profiles ==
  <<[source_id |-> "src-1", connector_id |-> "conn-1", kind |-> Unit("Person"),
     timestamp |-> TestTime,
     ingested_at |-> DateTime(2026, 11, 5, 7, 59, 59, 123456789),
     properties |-> AliceProperties, raw_payload |-> None],
    [source_id |-> "mock_msg_1", connector_id |-> "test-conn-01", kind |-> Unit("Message"),
     timestamp |-> DateTime(2020, 9, 13, 12, 26, 40, 500000000),
     ingested_at |-> DateTime(2020, 9, 13, 12, 26, 40, 500000000),
     properties |-> MockProperties, raw_payload |-> Some(JNull)],
    [source_id |-> "src-1", connector_id |-> "conn-2", kind |-> Other("person"),
     timestamp |-> DateTime(2020, 9, 13, 12, 26, 40, 500500000),
     ingested_at |-> DateTime(2021, 1, 2, 3, 4, 5, 0),
     properties |-> JNull, raw_payload |-> Some(MockProperties)],
    [source_id |-> "", connector_id |-> "conn-1", kind |-> Other("parse_error"),
     timestamp |-> DateTime(1999, 12, 31, 23, 59, 59, 999999999),
     ingested_at |-> DateTime(2021, 1, 2, 3, 4, 5, 6000),
     properties |-> JObj(<<Member("name", JObj(<<Member("subject", JNum(7))>>)),
                          Member("subject", JBool(TRUE))>>),
     raw_payload |-> Some(JStr("null"))]>>

WithId(id, p) ==
  Item(id, p.source_id, p.connector_id, p.kind, p.timestamp, p.ingested_at,
       p.properties, p.raw_payload)

\* what one client of the storage saves: three ids, each with two of the
\* profiles, so that every two profiles meet in one table, also a profile itself
ClientItems ==
  {WithId("id-1", Profiles[1]), WithId("id-1", Profiles[2]),
   WithId("id-2", Profiles[3]), WithId("id-2", Profiles[4]),
   WithId("id-3", Profiles[2]), WithId("id-3", Profiles[3])}

\* what each of two concurrent clients saves
SharedItems == {WithId("id-1", Profiles[1]), WithId("id-2", Profiles[3])}

\* the slices a caller passes to save_items
Batches(inputs) == UNION {[1..n -> inputs] : n \in 0..MaxBatch}

(***************************************************************************)
(* Clients of the Storage trait: each calls init, save_item, save_items    *)
(* and get_all_items in any order, one call at a time.                     *)
(***************************************************************************)
ClientInit(C) ==
  \E c \in C, ok \in BOOLEAN : init(c, ok) /\ UNCHANGED hostVars

ClientSaveItem(C, inputs) ==
  \E c \in C, item \in inputs, ok \in BOOLEAN : save_item(c, item, ok) /\ UNCHANGED hostVars

ClientSaveItems(C, inputs) ==
  \E c \in C, batch \in Batches(inputs), ok \in BOOLEAN :
    save_items(c, batch, ok) /\ UNCHANGED hostVars

ClientExecute(C) ==
  \E c \in C, ok \in BOOLEAN : execute(c, ok) /\ UNCHANGED hostVars

ClientCommit(C) ==
  \E c \in C, ok \in BOOLEAN : commit(c, ok) /\ UNCHANGED hostVars

ClientGetAllItems(C) ==
  \E c \in C, ok \in BOOLEAN, now \in ReadClock :
    get_all_items(c, ok, now) /\ UNCHANGED hostVars

ClientReturn(C) ==
  \E c \in C : Return(c) /\ UNCHANGED hostVars

\* a new database file, and no call in progress
InitStorage ==
  /\ tableExists = FALSE
  /\ items = EmptyTable
  /\ call = [c \in Callers |-> Idle]
  /\ ret = [c \in Callers |-> NoResult]
  /\ saved = << >>

\* run() is not part of the specifications of the storage alone
InitNoHost ==
  /\ hostPc = "off" /\ runs = 0 /\ initOk = "none" /\ syncOk = "none"
  /\ synced = << >> /\ saveOk = "none" /\ reported = {}

Init == InitStorage /\ InitNoHost

\* one client
Next ==
  \/ ClientInit({"t1"})
  \/ ClientSaveItem({"t1"}, ClientItems)
  \/ ClientSaveItems({"t1"}, ClientItems)
  \/ ClientExecute({"t1"})
  \/ ClientCommit({"t1"})
  \/ ClientGetAllItems({"t1"})
  \/ ClientReturn({"t1"})

Spec == Init /\ [][Next]_vars

\* two clients sharing the DuckDbStorage (the trait is Send + Sync)
NextShared ==
  \/ ClientInit({"t1", "t2"})
  \/ ClientSaveItem({"t1", "t2"}, SharedItems)
  \/ ClientSaveItems({"t1", "t2"}, SharedItems)
  \/ ClientExecute({"t1", "t2"})
  \/ ClientCommit({"t1", "t2"})
  \/ ClientGetAllItems({"t1", "t2"})
  \/ ClientReturn({"t1", "t2"})

SpecShared == Init /\ [][NextShared]_vars

(***************************************************************************)
(* lib.rs, run(): the setup closure calls storage.init(), then spawns the  *)
(* task that drives the connector (debug builds) and saves what it synced. *)
(* The database file outlives the process; run() starts again at the next  *)
(* launch of the application.                                              *)
(*   hostPc    where run() is                                              *)
(*   runs      how many times the application has been started             *)
(*   initOk    what storage.init() returned in this run                    *)
(*   syncOk    what connector.full_sync() returned in this run             *)
(*   synced    `items`, the vector passed to save_items                    *)
(*   saveOk    what storage.save_items(&items) returned in this run        *)
(*   reported  the messages written with eprintln! in this run             *)
(***************************************************************************)
\* Utc::now() in the n-th run, and a moment later
HostClock(n) == DateTime(2026, 11, 5, 9, n, 30, 0)

HostClockLater(n) == DateTime(2026, 11, 5, 9, n, 30, 42000)

\* uuid::Uuid::new_v4().to_string(): the n-th one drawn, unlike every other
Uuid(n) == "uuid-" \o ToString(n)

\* Item::new: a fresh id, timestamp and ingested_at from two reads of the clock
\* (called once per run: the n-th uuid is drawn in the n-th run)
ItemNew(n, later, source_id, connector_id, kind, properties) ==
  Item(Uuid(n), source_id, connector_id, kind,
       HostClock(n), IF later THEN HostClockLater(n) ELSE HostClock(n),
       properties, None)

\* MockConnector::full_sync, Ok(vec![item])
MockFullSync(n, later) ==
  <<ItemNew(n, later, "mock_msg_1", "test-conn-01", Unit("Message"), MockProperties)>>

\* `if let Err(e) = storage.init() { eprintln!(...) }`
HostStorageInit ==
  /\ hostPc = "setup"
  /\ \E ok \in BOOLEAN : init("host", ok)
  /\ hostPc' = "init_returned"
  /\ UNCHANGED <<runs, initOk, syncOk, synced, saveOk, reported>>

\* the end of the setup closure: the error is printed, the task is spawned
\* whatever init returned, and setup returns Ok(())
HostSpawn ==
  /\ hostPc = "init_returned"
  /\ initOk' = IF ret["host"].ok THEN "ok" ELSE "err"
  /\ reported' = IF ret["host"].ok THEN reported ELSE reported \cup {"Failed to init storage"}
  /\ Return("host")
  /\ hostPc' = "spawned"
  /\ UNCHANGED <<runs, syncOk, synced, saveOk>>

\* a task that reports a failed connector.init() and syncs all the same
HostConnectorInitGoesOn ==
  /\ hostPc = "spawned"
  /\ \E ok \in BOOLEAN :
       reported' = IF ok THEN reported ELSE reported \cup {"Connector init failed"}
  /\ hostPc' = "sync"
  /\ UNCHANGED <<runs, initOk, syncOk, synced, saveOk>>
  /\ UNCHANGED storageVars

\* `match connector.init().await`; ok: what the connector returns (the
\* Connector trait lets init fail; MockConnector::init returns Ok)
HostConnectorInit ==
  /\ hostPc = "spawned"
  /\ \E ok \in BOOLEAN :
       /\ hostPc' = IF ok THEN "sync" ELSE "running"
       /\ reported' = IF ok THEN reported ELSE reported \cup {"Connector init failed"}
  /\ UNCHANGED <<runs, initOk, syncOk, synced, saveOk>>
  /\ UNCHANGED storageVars

\* a task that gives up when full_sync fails, as `connector.full_sync().await?` would
HostFullSyncOrGiveUp ==
  /\ hostPc = "sync"
  /\ \E ok \in BOOLEAN, later \in BOOLEAN :
       /\ syncOk' = IF ok THEN "ok" ELSE "err"
       /\ synced' = IF ok THEN MockFullSync(runs, later) ELSE << >>
       /\ reported' = IF ok THEN reported ELSE reported \cup {"Sync failed"}
       /\ hostPc' = IF ok THEN "save" ELSE "running"
  /\ UNCHANGED <<runs, initOk, saveOk>>
  /\ UNCHANGED storageVars

\* `connector.full_sync().await.unwrap_or_else(|e| { eprintln!(...); Vec::new() })`;
\* ok: what the connector returns (the trait lets full_sync fail;
\* MockConnector::full_sync returns Ok)
HostFullSync ==
  /\ hostPc = "sync"
  /\ \E ok \in BOOLEAN, later \in BOOLEAN :
       /\ syncOk' = IF ok THEN "ok" ELSE "err"
       /\ synced' = IF ok THEN MockFullSync(runs, later) ELSE << >>
       /\ reported' = IF ok THEN reported ELSE reported \cup {"Sync failed"}
  /\ hostPc' = "save"
  /\ UNCHANGED <<runs, initOk, saveOk>>
  /\ UNCHANGED storageVars

\* `storage.save_items(&items)` is called
HostSaveItems ==
  /\ hostPc = "save"
  /\ \E ok \in BOOLEAN : save_items("host", synced, ok)
  /\ hostPc' = "saving"
  /\ UNCHANGED <<runs, initOk, syncOk, synced, saveOk, reported>>

\* save_items runs: its loop and its commit
HostExecute ==
  /\ hostPc = "saving"
  /\ \E ok \in BOOLEAN : execute("host", ok)
  /\ UNCHANGED hostVars

HostCommit ==
  /\ hostPc = "saving"
  /\ \E ok \in BOOLEAN : commit("host", ok)
  /\ UNCHANGED hostVars

\* `if let Err(e) = storage.save_items(&items) { eprintln!(...) } else { println!(...) }`;
\* the task ends and the application keeps running
HostSaved ==
  /\ hostPc = "saving"
  /\ ret["host"].op = "save"
  /\ saveOk' = IF ret["host"].ok THEN "ok" ELSE "err"
  /\ reported' = IF ret["host"].ok THEN reported
                 ELSE reported \cup {"Failed to save items to DB"}
  /\ Return("host")
  /\ hostPc' = "running"
  /\ UNCHANGED <<runs, initOk, syncOk, synced>>

\* the application is closed and started again: run() anew, on the same file
HostRestart ==
  /\ hostPc = "running"
  /\ runs < MaxRuns
  /\ hostPc' = "setup"
  /\ runs' = runs + 1
  /\ initOk' = "none" /\ syncOk' = "none" /\ synced' = << >> /\ saveOk' = "none"
  /\ reported' = {}
  /\ UNCHANGED storageVars

\* the first start of the application: no database file yet
InitHost ==
  /\ InitStorage
  /\ hostPc = "setup" /\ runs = 1 /\ initOk = "none" /\ syncOk = "none"
  /\ synced = << >> /\ saveOk = "none" /\ reported = {}

NextHost ==
  \/ HostStorageInit
  \/ HostSpawn
  \/ HostConnectorInit
  \/ HostFullSync
  \/ HostSaveItems
  \/ HostExecute
  \/ HostCommit
  \/ HostSaved
  \/ HostRestart

SpecHost == InitHost /\ [][NextHost]_vars
(***************************************************************************)
(* A database file that already holds rows this code did not write (an     *)
(* earlier version of the application, another tool): the table exists,    *)
(* and a row may hold, in one column, text that does not decode, or NULL   *)
(* (the columns other than id are nullable TEXT).                          *)
(***************************************************************************)
\* kind columns that do not decode: a variant this enum does not have, the
\* empty text, NULL
BadKindCells == {Cell(<<StrTok("contact")>>), Cell(<< >>), NullText}

\* properties columns that do not decode: a cut-off object, NULL
BadPropertiesCells == {Cell(<<Bare("{"), StrTok("name"), Bare(":")>>), NullText}

\* timestamp columns that do not parse: seconds since the epoch, NULL
BadTimestampCells == {Cell(<<"1", "6", "0", "0", "0", "0", "0", "0", "0", "0">>), NullText}

\* a row as this code writes it, and the same row with one column spoilt
LegacyRows(item) ==
  {RowOf(item)}
    \cup {[RowOf(item) EXCEPT !.kind = k] : k \in BadKindCells}
    \cup {[RowOf(item) EXCEPT !.properties = k] : k \in BadPropertiesCells}
    \cup {[RowOf(item) EXCEPT !.timestamp = k] : k \in BadTimestampCells}
    \cup {[RowOf(item) EXCEPT !.ingested_at = k] : k \in BadTimestampCells}

\* the tables the file may hold: a row "old-1", spoilt or not, alone or beside
\* a row "old-2" as this code writes it
LegacyTables ==
  {[id \in {"old-1"} |-> r] : r \in LegacyRows(WithId("old-1", Profiles[1]))}
    \cup {[id \in {"old-1", "old-2"} |->
             IF id = "old-1" THEN r ELSE RowOf(WithId("old-2", Profiles[3]))] :
            r \in LegacyRows(WithId("old-1", Profiles[1]))}

\* what the client saves over such a file
LegacyItems == {WithId("old-1", Profiles[2]), WithId("id-1", Profiles[4])}

InitLegacy ==
  /\ tableExists = TRUE
  /\ items \in LegacyTables
  /\ call = [c \in Callers |-> Idle]
  /\ ret = [c \in Callers |-> NoResult]
  /\ saved = << >>
  /\ InitNoHost

NextLegacy ==
  \/ ClientInit({"t1"})
  \/ ClientSaveItem({"t1"}, LegacyItems)
  \/ ClientSaveItems({"t1"}, LegacyItems)
  \/ ClientExecute({"t1"})
  \/ ClientCommit({"t1"})
  \/ ClientGetAllItems({"t1"})
  \/ ClientReturn({"t1"})

SpecLegacy == InitLegacy /\ [][NextLegacy]_vars

(***************************************************************************)
(* Properties of the storage with one client (Spec).                       *)
(***************************************************************************)
\* the ids of the items of a batch
BatchIds(batch) == {batch[i].id : i \in 1..Len(batch)}

\* the last item of the batch that carries the id
LastWithId(batch, id) ==
  batch[CHOOSE i \in 1..Len(batch) :
          batch[i].id = id /\ \A j \in (i + 1)..Len(batch) : batch[j].id # id]

\* C1. Round-trip: once exactly one Item v has been saved into the new store,
\* a get_all_items that succeeds returns the one-element list <<v>>: the item
\* read back equals v in id, source_id, connector_id, kind, timestamp,
\* ingested_at, properties and raw_payload.
C1_RoundTrip ==
  \A c \in Callers :
    (ret[c].op = "get" /\ ret[c].ok /\ Cardinality(DOMAIN saved) = 1)
      => \E id \in DOMAIN saved : ret[c].items = <<saved[id]>>

\* a read returned the one saved item, of kind Other and with a raw payload
C1_Witness ==
  \E c \in Callers :
    /\ ret[c].op = "get" /\ ret[c].ok /\ Cardinality(DOMAIN saved) = 1
    /\ Len(ret[c].items) = 1
    /\ ret[c].items[1].kind.tag = "Other"
    /\ ret[c].items[1].raw_payload.some

\* C2. Idempotent replace: when a save returns Ok, the ids stored are those
\* stored before together with the ids of the batch (so an id already stored
\* adds no row and a new id adds one), every id of the batch holds exactly the
\* row of the item saved for it, in every column, and no other row has changed.
C2_IdempotentReplace ==
  \A c \in Callers :
    (ret[c].op = "save" /\ ret[c].ok)
      => /\ DOMAIN items = DOMAIN ret[c].before \cup BatchIds(ret[c].items)
         /\ Cardinality(DOMAIN items)
              = Cardinality(DOMAIN ret[c].before)
                  + Cardinality(BatchIds(ret[c].items) \ DOMAIN ret[c].before)
         /\ \A id \in BatchIds(ret[c].items) :
              items[id] = RowOf(LastWithId(ret[c].items, id))
         /\ \A id \in DOMAIN ret[c].before \ BatchIds(ret[c].items) :
              items[id] = ret[c].before[id]

\* a save returned Ok that replaced a stored row by one that differs from it,
\* also in ingested_at, while another row stayed
C2_Witness ==
  \E c \in Callers :
    /\ ret[c].op = "save" /\ ret[c].ok
    /\ \E id \in BatchIds(ret[c].items) \cap DOMAIN ret[c].before :
         /\ items[id] # ret[c].before[id]
         /\ items[id].ingested_at # ret[c].before[id].ingested_at
    /\ DOMAIN ret[c].before \ BatchIds(ret[c].items) # {}

\* C3. Batch atomicity: a save_items that returns an error leaves the table,
\* rows and contents, as it was when the call began, wherever in the batch it
\* failed; one that returns Ok has stored every item of its batch.
C3_BatchAtomicity ==
  \A c \in Callers :
    /\ (ret[c].op = "save" /\ ~ret[c].ok)
         => (items = ret[c].before /\ saved = ret[c].history)
    /\ (ret[c].op = "save" /\ ret[c].ok)
         => BatchIds(ret[c].items) \subseteq DOMAIN items

\* a save_items failed on the last item of a batch of two or more, after it
\* had executed one item of a new id and one that would replace a stored row
C3_Witness ==
  \E c \in Callers :
    /\ ret[c].op = "save" /\ ~ret[c].ok
    /\ Len(ret[c].items) >= 2 /\ ret[c].done = Len(ret[c].items) - 1
    /\ ret[c].items[1].id \notin DOMAIN ret[c].before
    /\ ret[c].before # EmptyTable

\* C4. Ordering: a get_all_items that succeeds returns the items in
\* non-increasing order of timestamp, and the stored timestamp texts order
\* as the timestamps they encode, for every two stored rows.
C4_Ordering ==
  /\ \A c \in Callers :
       (ret[c].op = "get" /\ ret[c].ok)
         => \A i, j \in 1..Len(ret[c].items) :
              i < j => ~DateTimeLess(ret[c].items[i].timestamp, ret[c].items[j].timestamp)
  /\ \A a, b \in DOMAIN items :
       TextLess(items[a].timestamp.text, items[b].timestamp.text)
         <=> DateTimeLess(saved[a].timestamp, saved[b].timestamp)

\* a read returned three items of three different timestamps, one without a
\* fraction of a second and one with
C4_Witness ==
  \E c \in Callers :
    /\ ret[c].op = "get" /\ ret[c].ok /\ Len(ret[c].items) = 3
    /\ DateTimeLess(ret[c].items[3].timestamp, ret[c].items[2].timestamp)
    /\ DateTimeLess(ret[c].items[2].timestamp, ret[c].items[1].timestamp)
    /\ \E i \in 1..3 : ret[c].items[i].timestamp.nano = 0
    /\ \E i \in 1..3 : ret[c].items[i].timestamp.nano # 0

\* whether a kind column holds text that decodes to an ItemKind
KindDecodes(cell) == ~cell.null /\ KindFromJson(cell.text).ok

\* whether the columns of the row other than kind can be read (none is NULL
\* where the closure reads a String)
OtherColumnsRead(row) ==
  /\ ~row.source_id.null /\ ~row.connector_id.null /\ ~row.timestamp.null
  /\ ~row.ingested_at.null /\ ~row.properties.null

\* C5. Degradation on malformed kind (SpecLegacy): when the engine serves the
\* read and a stored row's kind column does not hold valid encoded data (every
\* other column being readable), get_all_items returns Ok, with every stored
\* row once, the rows of malformed kind with kind = Other("parse_error") and
\* every other row with the kind stored for it.
C5_MalformedKindDegrades ==
  \A c \in Callers :
    (/\ ret[c].op = "get" /\ ret[c].err # "engine"
     /\ \A id \in DOMAIN ret[c].before : OtherColumnsRead(ret[c].before[id])
     /\ \E id \in DOMAIN ret[c].before : ~KindDecodes(ret[c].before[id].kind))
      => /\ ret[c].ok
         /\ Len(ret[c].items) = Cardinality(DOMAIN ret[c].before)
         /\ \A i \in 1..Len(ret[c].items) :
              /\ ret[c].items[i].id \in DOMAIN ret[c].before
              /\ ret[c].items[i].kind
                   = IF KindDecodes(ret[c].before[ret[c].items[i].id].kind)
                     THEN KindFromJson(ret[c].before[ret[c].items[i].id].kind.text).kind
                     ELSE Other("parse_error")

\* C6. init() is non-destructive: whenever init returns, Ok or Err, whatever
\* was saved before it, the stored rows are those it found.
C6_InitKeepsRows ==
  \A c \in Callers :
    ret[c].op = "init"
      => (items = ret[c].before /\ saved = ret[c].history
          /\ (ret[c].ok => tableExists))

\* init returned Ok on a table that exists and holds rows
C6_Witness ==
  \E c \in Callers :
    /\ ret[c].op = "init" /\ ret[c].ok
    /\ Cardinality(DOMAIN ret[c].before) >= 2
    /\ items = ret[c].before

(***************************************************************************)
(* Properties of the storage shared by two clients (SpecShared).           *)
(***************************************************************************)
\* C7. Atomic visibility: what a get_all_items returns is what whole committed
\* batches had saved when it read: every item of it is the Item last committed
\* for its id, and every id committed is in it once.
C7_AtomicVisibility ==
  \A c \in Callers :
    (ret[c].op = "get" /\ ret[c].ok)
      => /\ Len(ret[c].items) = Cardinality(DOMAIN ret[c].history)
         /\ \A i \in 1..Len(ret[c].items) :
              /\ ret[c].items[i].id \in DOMAIN ret[c].history
              /\ ret[c].items[i] = ret[c].history[ret[c].items[i].id]
         /\ \A i, j \in 1..Len(ret[c].items) :
              ret[c].items[i].id = ret[c].items[j].id => i = j

\* a read returned while another caller's transaction had executed one item
\* of a batch of two and not yet committed
C7_Witness ==
  \E c \in Callers :
    /\ ret[c].op = "get" /\ ret[c].ok /\ ret[c].racing
    /\ \E w \in Callers \ {c} :
         /\ call[w].op = "save" /\ call[w].done = 1 /\ Len(call[w].batch) = 2
         /\ call[w].batch[1].id # call[w].batch[2].id

\* C8. Writer serialization: at most one save_items transaction is in flight.
C8_OneWriterInFlight ==
  Cardinality({c \in Callers : call[c].op = "save"}) <= 1

\* two save_items calls have each executed an item in a transaction of their
\* own, neither committed
C8_TwoWritersInFlight ==
  \E a, b \in Callers :
    /\ a # b
    /\ call[a].op = "save" /\ call[a].done >= 1
    /\ call[b].op = "save" /\ call[b].done >= 1

(***************************************************************************)
(* Properties of run() (SpecHost).                                         *)
(***************************************************************************)
\* C9. Connector isolation: when full_sync has returned an error it has been
\* reported and the vector of items is empty; whatever full_sync returned,
\* the task goes on to call save_items with the vector (it has returned by
\* the time the task ends), when that save returns Ok every item synced is
\* stored as saved, and what earlier runs saved stays stored.
C9_ConnectorIsolation ==
  /\ syncOk = "err" => ("Sync failed" \in reported /\ synced = << >>)
  /\ (syncOk # "none" /\ hostPc = "running") => saveOk # "none"
  /\ (syncOk = "ok" /\ saveOk = "ok")
       => \A i \in 1..Len(synced) :
            /\ synced[i].id \in DOMAIN items
            /\ items[synced[i].id] = RowOf(synced[i])
  /\ \A id \in DOMAIN saved : id \in DOMAIN items /\ items[id] = RowOf(saved[id])

\* a run whose full_sync failed ended with save_items having returned Ok, the
\* row of an earlier run still stored
C9_Witness ==
  /\ syncOk = "err" /\ hostPc = "running" /\ saveOk = "ok"
  /\ items # EmptyTable

\* C10. A failure of init() is fatal to start-up: once storage.init() has
\* returned an error in a run, the run does not go on to the connector and
\* save_items is not called.
C10_InitFailureFatal ==
  initOk = "err" => (hostPc \notin {"sync", "save", "saving"} /\ saveOk = "none")
\* C10. witness of the divergence: save_items is in progress in a run whose
\* storage.init() returned an error
C10_SaveAfterFailedInit == initOk = "err" /\ hostPc = "saving" /\ call["host"].op = "save"

(***************************************************************************)
(* Further properties of the storage with one client (Spec).               *)
(***************************************************************************)
\* C11. save_item(item) is save_items with the batch <<item>>: from every
\* state, for every item and every answer of the engine, a step is one of
\* save_item exactly when it is one of save_items with that batch (so the
\* call then runs, returns and stores as that save_items does), and a save of
\* one item that has returned has stored the item over the table it found
\* when it returned Ok and left that table as it was when it returned an error.
C11_SaveItemIsSingletonBatch ==
  /\ [][\A c \in Callers, item \in ClientItems, ok \in BOOLEAN :
          save_item(c, item, ok) <=> save_items(c, <<item>>, ok)]_vars
  /\ [](\A c \in Callers :
          (ret[c].op = "save" /\ Len(ret[c].items) = 1)
            => items = IF ret[c].ok
                       THEN InsertOrReplace(ret[c].before, RowOf(ret[c].items[1]))
                       ELSE ret[c].before)

\* a save of one item returned Ok, having replaced the row of its id in a
\* table of two rows
C11_Witness ==
  \E c \in Callers :
    /\ ret[c].op = "save" /\ ret[c].ok /\ Len(ret[c].items) = 1
    /\ ret[c].items[1].id \in DOMAIN ret[c].before
    /\ Cardinality(DOMAIN ret[c].before) = 2
    /\ items[ret[c].items[1].id] = RowOf(ret[c].items[1])

\* C12. Id uniqueness: in every state reached by init, save_item and
\* save_items calls, no two stored rows hold the same id, and the stored rows
\* are as many as, and carry the ids of, the distinct ids saved with success.
C12_IdUniqueness ==
  /\ \A a, b \in DOMAIN items : items[a].id = items[b].id => a = b
  /\ Cardinality(DOMAIN items) = Cardinality(DOMAIN saved)
  /\ {items[a].id : a \in DOMAIN items} = DOMAIN saved

\* a batch that repeats an id was saved with success into a table that held
\* that id and another
C12_Witness ==
  \E c \in Callers :
    /\ ret[c].op = "save" /\ ret[c].ok /\ Len(ret[c].items) = 2
    /\ ret[c].items[1].id = ret[c].items[2].id
    /\ ret[c].items[1] # ret[c].items[2]
    /\ ret[c].items[1].id \in DOMAIN ret[c].before
    /\ Cardinality(DOMAIN items) = 2

\* C13. ingested_at is never updated on re-ingestion: when a save that
\* returned Ok carried an item whose id was stored already, the ingested_at
\* stored for that id is the one stored before the save.
C13_IngestedAtKept ==
  \A c \in Callers :
    (ret[c].op = "save" /\ ret[c].ok)
      => \A id \in BatchIds(ret[c].items) \cap DOMAIN ret[c].before :
           items[id].ingested_at = ret[c].before[id].ingested_at

\* save_item of an item whose id was stored returned Ok, and the ingested_at
\* stored for the id is now the item's, not the one stored before
C13_IngestedAtReplaced ==
  \E c \in Callers :
    /\ ret[c].op = "save" /\ ret[c].ok /\ Len(ret[c].items) = 1
    /\ ret[c].items[1].id \in DOMAIN ret[c].before
    /\ items[ret[c].items[1].id].ingested_at
         = Cell(to_rfc3339(ret[c].items[1].ingested_at))
    /\ items[ret[c].items[1].id].ingested_at
         # ret[c].before[ret[c].items[1].id].ingested_at

(***************************************************************************)
(* Further properties of reads of a file this code did not write           *)
(* (SpecLegacy).                                                           *)
(***************************************************************************)
\* whether a properties column holds text that decodes to a Value
PropertiesDecode(cell) == ~cell.null /\ ValueFromText(cell.text).ok

\* whether a timestamp or ingested_at column holds text that parses
TimestampParses(cell) == ~cell.null /\ parse_from_rfc3339(cell.text).ok

\* C14. Degradation on malformed properties: when the engine serves the read
\* and a stored row's properties column does not hold valid encoded data
\* (every other column being readable), get_all_items returns Ok, with every
\* stored row once, the rows of malformed properties with properties = null and
\* their other fields as stored, and every other row with its properties.
C14_MalformedPropertiesDegrade ==
  \A c \in Callers :
    (/\ ret[c].op = "get" /\ ret[c].err # "engine"
     /\ \A id \in DOMAIN ret[c].before :
          /\ ~ret[c].before[id].source_id.null /\ ~ret[c].before[id].connector_id.null
          /\ ~ret[c].before[id].kind.null /\ ~ret[c].before[id].timestamp.null
          /\ ~ret[c].before[id].ingested_at.null
     /\ \E id \in DOMAIN ret[c].before : ~PropertiesDecode(ret[c].before[id].properties))
      => /\ ret[c].ok
         /\ Len(ret[c].items) = Cardinality(DOMAIN ret[c].before)
         /\ \A i \in 1..Len(ret[c].items) :
              /\ ret[c].items[i].id \in DOMAIN ret[c].before
              /\ ret[c].items[i].source_id = ret[c].before[ret[c].items[i].id].source_id.text
              /\ ret[c].items[i].properties
                   = IF PropertiesDecode(ret[c].before[ret[c].items[i].id].properties)
                     THEN ValueFromText(ret[c].before[ret[c].items[i].id].properties.text).v
                     ELSE JNull

\* a read failed on a row, of a table in which a row holds NULL in its
\* properties column and every row is readable in its other columns
C14_NullPropertiesFailRead ==
  \E c \in Callers :
    /\ ret[c].op = "get" /\ ~ret[c].ok /\ ret[c].err = "row"
    /\ \E id \in DOMAIN ret[c].before : ret[c].before[id].properties.null
    /\ \A id \in DOMAIN ret[c].before :
         /\ OtherColumnsRead([ret[c].before[id] EXCEPT !.properties = Cell(<< >>)])
         /\ ~ret[c].before[id].kind.null

\* C15. Timestamp fallback: when the engine serves the read and the text of a
\* stored row's timestamp or ingested_at column does not parse (no column
\* read as text being NULL), get_all_items returns Ok with every stored row
\* once; a field whose text parses is the time it encodes, a field whose text
\* does not parse is a time of the clock at the read, and the other fields
\* are as stored.
C15_TimestampFallback ==
  \A c \in Callers :
    (/\ ret[c].op = "get" /\ ret[c].err # "engine"
     /\ \A id \in DOMAIN ret[c].before :
          OtherColumnsRead(ret[c].before[id]) /\ ~ret[c].before[id].kind.null
     /\ \E id \in DOMAIN ret[c].before :
          \/ ~TimestampParses(ret[c].before[id].timestamp)
          \/ ~TimestampParses(ret[c].before[id].ingested_at))
      => /\ ret[c].ok
         /\ Len(ret[c].items) = Cardinality(DOMAIN ret[c].before)
         /\ \A i, j \in 1..Len(ret[c].items) :
              ret[c].items[i].id = ret[c].items[j].id => i = j
         /\ \A i \in 1..Len(ret[c].items) :
              /\ ret[c].items[i].id \in DOMAIN ret[c].before
              /\ LET row == ret[c].before[ret[c].items[i].id]
                 IN /\ IF TimestampParses(row.timestamp)
                       THEN ret[c].items[i].timestamp
                              = parse_from_rfc3339(row.timestamp.text).dt
                       ELSE ret[c].items[i].timestamp \in ReadClock
                    /\ IF TimestampParses(row.ingested_at)
                       THEN ret[c].items[i].ingested_at
                              = parse_from_rfc3339(row.ingested_at.text).dt
                       ELSE ret[c].items[i].ingested_at \in ReadClock
                    /\ ret[c].items[i].source_id = row.source_id.text
                    /\ ret[c].items[i].connector_id = row.connector_id.text
                    /\ ret[c].items[i].properties = ValueFromText(row.properties.text).v

\* a read returned two rows, one of them with the time of the read in place
\* of a timestamp whose text does not parse
C15_Witness ==
  \E c \in Callers :
    /\ ret[c].op = "get" /\ ret[c].ok /\ Len(ret[c].items) = 2
    /\ \E i \in 1..2 :
         /\ ~ret[c].before[ret[c].items[i].id].timestamp.null
         /\ ~TimestampParses(ret[c].before[ret[c].items[i].id].timestamp)
         /\ ret[c].items[i].timestamp \in ReadClock

(***************************************************************************)
(* Further properties of run() (SpecHost).                                 *)
(***************************************************************************)
\* C16. No uniqueness of (connector_id, source_id): the items the runs have
\* saved, all of the mock connector's one connector_id and source_id and each
\* of an id of its own, are all stored, each as a row of its own; and when the
\* save_items of a run whose full_sync returned its one item returns Ok, the
\* table holds the rows it held before, unchanged, and exactly one more.
C16_NoSourceUniqueness ==
  /\ \A id \in DOMAIN saved :
       /\ id \in DOMAIN items
       /\ items[id].connector_id = Cell("test-conn-01")
       /\ items[id].source_id = Cell("mock_msg_1")
  /\ Cardinality(DOMAIN items) = Cardinality(DOMAIN saved)
  /\ (ret["host"].op = "save" /\ ret["host"].ok /\ syncOk = "ok")
       => /\ Len(ret["host"].items) = 1
          /\ ret["host"].items[1].id \notin DOMAIN ret["host"].before
          /\ DOMAIN items = DOMAIN ret["host"].before \cup {ret["host"].items[1].id}
          /\ Cardinality(DOMAIN items) = Cardinality(DOMAIN ret["host"].before) + 1
          /\ \A id \in DOMAIN ret["host"].before : items[id] = ret["host"].before[id]

\* the save_items of a third start returned Ok: three rows of three ids, all
\* of the same connector_id and source_id
C16_Witness ==
  /\ ret["host"].op = "save" /\ ret["host"].ok /\ syncOk = "ok"
  /\ Cardinality(DOMAIN ret["host"].before) = 2
  /\ Cardinality(DOMAIN items) = 3
  /\ \A a, b \in DOMAIN items :
       /\ items[a].connector_id = items[b].connector_id
       /\ items[a].source_id = items[b].source_id

\* C17. Orchestrator ordering: in every run, save_items is called only after
\* storage.init() has been called and has returned, full_sync is called only
\* after the connector's init() returned Ok, and save_items is called only
\* after full_sync has returned; when the connector's init() has failed,
\* neither full_sync nor save_items is called and the application keeps
\* running.
C17_OrchestratorOrdering ==
  /\ (hostPc \in {"spawned", "sync", "save", "saving", "running"}) => initOk # "none"
  /\ (call["host"].op = "save" \/ ret["host"].op = "save" \/ saveOk # "none")
       => (initOk # "none" /\ syncOk # "none")
  /\ (hostPc = "sync" \/ syncOk # "none") => "Connector init failed" \notin reported
  /\ (hostPc \in {"save", "saving"}) => syncOk # "none"
  /\ "Connector init failed" \in reported
       => /\ hostPc = "running"
          /\ syncOk = "none" /\ synced = << >> /\ saveOk = "none"
          /\ call["host"].op = "idle" /\ ret["host"].op = "none"

\* the connector's init() failed in a later start: the application runs, and
\* the row an earlier start saved is stored
C17_Witness ==
  /\ "Connector init failed" \in reported /\ hostPc = "running"
  /\ runs >= 2 /\ items # EmptyTable /\ syncOk = "none"

(***************************************************************************)
(* Reads and batches of the storage with one client (Spec).                *)
(***************************************************************************)
\* C18, as stated. get_all_items is read-only and complete, and a second read
\* of the same table returns the same ids in the same order: every order the
\* SELECT may give for the table read is the order of the ids returned.
C18_RereadSameOrder ==
  \A c \in Callers :
    ret[c].op = "get"
      => /\ items = ret[c].before /\ saved = ret[c].history
         /\ ret[c].ok
              => /\ Len(ret[c].items) = Cardinality(DOMAIN saved)
                 /\ {ret[c].items[i].id : i \in 1..Len(ret[c].items)} = DOMAIN items
                 /\ \A order \in OrderByTimestampDesc(ret[c].before) :
                      \A i \in 1..Len(order) : order[i] = ret[c].items[i].id

\* C18, amended. get_all_items is read-only and complete: it leaves the table
\* as it found it, and when it succeeds it returns one item per stored row, as
\* many as the distinct ids saved; a second read of the same table returns the
\* same ids, with the same timestamp at every position, and in the same order
\* when no two stored rows have the same timestamp.
C18_ReadOnlyComplete ==
  \A c \in Callers :
    ret[c].op = "get"
      => /\ items = ret[c].before /\ saved = ret[c].history
         /\ ret[c].ok
              => /\ Len(ret[c].items) = Cardinality(DOMAIN saved)
                 /\ {ret[c].items[i].id : i \in 1..Len(ret[c].items)} = DOMAIN items
                 /\ \A order \in OrderByTimestampDesc(ret[c].before) :
                      /\ Len(order) = Len(ret[c].items)
                      /\ {order[i] : i \in 1..Len(order)} = DOMAIN items
                      /\ \A i \in 1..Len(order) :
                           ret[c].before[order[i]].timestamp
                             = ret[c].before[ret[c].items[i].id].timestamp
                      /\ (\A a, b \in DOMAIN items :
                            items[a].timestamp = items[b].timestamp => a = b)
                           => \A i \in 1..Len(order) : order[i] = ret[c].items[i].id

\* a read returned the three rows of a table in which two rows have the same
\* timestamp, so that the SELECT may give them in either order
C18_Witness ==
  \E c \in Callers :
    /\ ret[c].op = "get" /\ ret[c].ok /\ Len(ret[c].items) = 3
    /\ items = ret[c].before
    /\ Cardinality(OrderByTimestampDesc(ret[c].before)) = 2

\* C19. Last write wins inside a batch: when a save_items returns Ok, every
\* id of its batch, also one that two or more items of the batch carry, is
\* stored in exactly one row, which holds the last item of the batch with
\* that id; a save_items of the empty batch, once begun, has nothing to
\* execute before its commit, and when it has returned, Ok or not, the table
\* is as it was.
C19_LastWriteWins ==
  \A c \in Callers :
    /\ (ret[c].op = "save" /\ ret[c].ok)
         => \A id \in BatchIds(ret[c].items) :
              /\ Cardinality({k \in DOMAIN items : items[k].id = id}) = 1
              /\ items[id] = RowOf(LastWithId(ret[c].items, id))
              /\ saved[id] = LastWithId(ret[c].items, id)
    /\ (ret[c].op = "save" /\ ret[c].items = << >>)
         => (items = ret[c].before /\ saved = ret[c].history /\ ret[c].done = 0)
    /\ (call[c].op = "save" /\ call[c].batch = << >>)
         => (call[c].done = 0 /\ call[c].writes = EmptyTable /\ items = call[c].before)

\* a batch of two different items of one id, new to the table, was saved with
\* success beside another row: the row stored is the second item's
C19_Witness ==
  \E c \in Callers :
    /\ ret[c].op = "save" /\ ret[c].ok /\ Len(ret[c].items) = 2
    /\ ret[c].items[1].id = ret[c].items[2].id
    /\ ret[c].items[1].id \notin DOMAIN ret[c].before
    /\ ret[c].before # EmptyTable
    /\ items[ret[c].items[2].id] = RowOf(ret[c].items[2])
    /\ RowOf(ret[c].items[1]) # RowOf(ret[c].items[2])
====
